---------------------------- MODULE Spec2Model ----------------------------
(***************************************************************************)
(* Camera-geometry and sampling kernels of code/lib/utils/utils.py:        *)
(* get_sphere_intersections, inverse_3x3_batch, bilinear_interpolation,    *)
(* get_index_outside_of_bbox, weighted_sampling, quat_to_rot, lift and     *)
(* get_camera_params.                                                      *)
(*                                                                         *)
(* Numbers.  The kernels compute over floating point; the model computes   *)
(* over exact numbers.  Integers stand for themselves, a quotient is a     *)
(* reduced fraction <<num, den>>, a value -b +/- sqrt(D) is the pair       *)
(* [rat, surd] of its rational part and the coefficient of sqrt(D), and a  *)
(* coordinate drawn by np.random.rand is a multiple of 1/RandDen.          *)
(* Rounding error of the float formats is outside the model.               *)
(***************************************************************************)
EXTENDS Integers, Sequences, FiniteSets

(***************************************************************************)
(* Bounds of the model.                                                    *)
(***************************************************************************)
\* largest number of rays in one batch handed to get_sphere_intersections
MaxRays == 2

\* ray origins and directions of the sphere batches
SphereOrigins == {<<x, y, z>> : x \in 0..2, y \in 0..1, z \in 0..1}
SphereDirs == {<<1, 0, 0>>, <<-1, 0, 0>>, <<0, 1, 0>>, <<0, 0, 1>>, <<-1, -1, -1>>}
Radii == {1, 2}

\* matrix entries are drawn from {-1, 0, MaxEntry}
MaxEntry == 1
\* largest number of matrices in one batch handed to inverse_3x3_batch
MaxBatch == 2

\* images and fields are H x W with H, W in 2..MaxDim
MaxDim == 3
\* num_sample ranges over 0..MaxSamples
MaxSamples == 2
\* np.random.rand draws a multiple of 1/RandDen in [0, 1): 0 or (RandDen-1)/RandDen
RandDen == 2
Draws == {0, RandDen - 1}
\* bbox_ratio as <<numerator, denominator>>; 9/10 is the default
Ratios == {<<0, 1>>, <<9, 10>>, <<1, 1>>}
\* channels of the rgb field
Channels == 1..2

\* pixel coordinates of get_camera_params range over 0..MaxPixel
MaxPixel == 1

(***************************************************************************)
(* Small arithmetic.                                                       *)
(***************************************************************************)
Abs(a) == IF a < 0 THEN -a ELSE a

Sgn(a) == IF a > 0 THEN 1 ELSE IF a < 0 THEN -1 ELSE 0

RECURSIVE Gcd(_, _)
Gcd(a, b) == IF b = 0 THEN Abs(a) ELSE Gcd(b, a % Abs(b))

Dot3(u, v) == u[1] * v[1] + u[2] * v[2] + u[3] * v[3]

\* An exact quotient: the reduced fraction num/den with den > 0.
Frac(n, d) ==
    LET g == Gcd(n, d) IN [kind |-> "num", num |-> Sgn(d) * (n \div g), den |-> Abs(d) \div g]
Whole(n) == [kind |-> "num", num |-> n, den |-> 1]
NaN == [kind |-> "nan", num |-> 0, den |-> 0]
Inf(sign) == [kind |-> IF sign > 0 THEN "inf" ELSE "-inf", num |-> 0, den |-> 0]
RatAdd(x, y) == Frac(x.num * y.den + y.num * x.den, x.den * y.den)
RatMul(x, y) == Frac(x.num * y.num, x.den * y.den)
RatSub(x, y) == Frac(x.num * y.den - y.num * x.den, x.den * y.den)
\* x / y for y # 0
RatDiv(x, y) == Frac(x.num * y.den, x.den * y.num)
\* IEEE division a / d of numbers a, d: a/0 is +-inf, 0/0 is nan
FloatDiv(a, d) ==
    IF d # 0 THEN Frac(a, d) ELSE IF a = 0 THEN NaN ELSE Inf(a)

(***************************************************************************)
(* State.                                                                  *)
(***************************************************************************)
VARIABLES
    cam_loc,            \* sphere: batch of ray origins (n_rays x 3)
    ray_directions,     \* sphere: batch of ray directions (n_rays x 3)
    r,                  \* sphere: radius argument
    spherePc,           \* sphere: "input" | "returned" | "exited"
    sphere_intersections, \* sphere: returned n_rays x 2 tensor, <<>> if none
    stdout,             \* lines printed so far
    exitStatus,         \* process exit status once exit() ran, else "running"
    mat,                \* inverse: the batch of 3x3 matrices (argument)
    invPc,              \* inverse: "input" | "returned"
    det,                \* inverse: the det tensor of the call
    adj,                \* inverse: the adj tensor of the call
    inv_matrices,       \* inverse: the returned tensor
    img_size,           \* sampling: <<H, W>>
    object_mask,        \* sampling: data["object_mask"], H rows of W booleans
    num_sample,         \* sampling: argument
    bbox_ratio,         \* sampling: argument, <<numerator, denominator>>
    wsPc,               \* sampling: "start" | "bbox" | "sampled" | "done" | "error"
    wsError,            \* sampling: the exception that ended the call, or "none"
    bbox_min,           \* sampling: <<row, col>>
    bbox_max,           \* sampling: <<row, col>>
    rand_calls,         \* sampling: number of np.random.rand calls made
    samples_bbox,       \* sampling: coordinates <<x, y>> in units of 1/RandDen
    samples_uniform,    \* sampling: coordinates <<x, y>> in units of 1/RandDen
    index_outside,      \* sampling: the index array of line 252
    output,             \* sampling: the returned dict, field -> sampled values
    bl_dist_map,        \* bilinear: the dist_map argument
    xs_ys,              \* bilinear: the coordinate arrays, as pairs <<x, y>>
    blPc,               \* bilinear: "input" | "returned" | "raised"
    bl_out,             \* bilinear: the returned array
    uv,                 \* camera: pixel coordinates of one image, pairs <<x, y>>
    intrinsics,         \* camera: the 4x4 camera matrix of the image
    pose,               \* camera: the pose as the 7-vector [qw,qx,qy,qz,tx,ty,tz]
    pose_matrix,        \* camera: the same pose as a 4x4 matrix
    quat_call,          \* camera: what the call on pose returned
    matrix_call         \* camera: what the call on pose_matrix returned

sphereVars == <<cam_loc, ray_directions, r, spherePc, sphere_intersections>>
procVars == <<stdout, exitStatus>>
invVars == <<mat, invPc, det, adj, inv_matrices>>
wsArgs == <<img_size, object_mask, num_sample, bbox_ratio>>
wsLocals == <<wsPc, wsError, bbox_min, bbox_max, rand_calls, samples_bbox,
              samples_uniform, index_outside, output>>
wsVars == <<wsArgs, wsLocals>>
blVars == <<bl_dist_map, xs_ys, blPc, bl_out>>
camArgs == <<uv, intrinsics, pose, pose_matrix>>
camVars == <<camArgs, quat_call, matrix_call>>
vars == <<sphereVars, procVars, invVars, wsVars, blVars, camVars>>

(***************************************************************************)
(* get_sphere_intersections (utils.py 184-203).                            *)
(***************************************************************************)
\* torch.bmm(ray_directions.view(-1,1,3), cam_loc.view(-1,3,1)).squeeze(-1)
ray_cam_dot(dirs, locs) == [i \in 1..Len(dirs) |-> Dot3(dirs[i], locs[i])]

\* ray_cam_dot**2 - (cam_loc.norm(2,1,keepdim=True)**2 - r**2)
under_sqrt(dirs, locs, rad) ==
    [i \in 1..Len(dirs) |->
        ray_cam_dot(dirs, locs)[i] * ray_cam_dot(dirs, locs)[i]
            - (Dot3(locs[i], locs[i]) - rad * rad)]

\* the sanity check: (under_sqrt <= 0).sum() > 0
SanityCheckFails(us) == Cardinality({i \in DOMAIN us : us[i] <= 0}) > 0

\* sign of rat + surd * sqrt(D), for D > 0
SurdSign(rat, surd, D) ==
    IF surd = 0 THEN Sgn(rat)
    ELSE IF rat = 0 THEN Sgn(surd)
    ELSE IF Sgn(rat) = Sgn(surd) THEN Sgn(rat)
    ELSE IF rat > 0 THEN Sgn(rat * rat - surd * surd * D)
    ELSE Sgn(surd * surd * D - rat * rat)

SurdZero == [rat |-> 0, surd |-> 0]

\* x.clamp_min(0.0) of x = rat + surd * sqrt(D)
clamp_min0(x, D) == IF SurdSign(x.rat, x.surd, D) < 0 THEN SurdZero ELSE x

\* torch.Tensor([-1, 1])
SignTensor == <<-1, 1>>

\* (mutant: the clamp is left out)
IntersectionsUnclamped(b, us) ==
    [i \in DOMAIN us |->
        [k \in 1..2 |-> [rat |-> -b[i], surd |-> SignTensor[k]]]]
\* sqrt(under_sqrt) * [-1, 1] - ray_cam_dot, then clamp_min(0.0)
Intersections(b, us) ==
    [i \in DOMAIN us |->
        [k \in 1..2 |-> clamp_min0([rat |-> -b[i], surd |-> SignTensor[k]], us[i])]]

\* the environment hands the call one more ray
AddRay(o, d) ==
    /\ spherePc = "input"
    /\ cam_loc' = Append(cam_loc, o)
    /\ ray_directions' = Append(ray_directions, d)
    /\ UNCHANGED <<r, spherePc, sphere_intersections, procVars, invVars, wsVars, blVars, camVars>>

\* one call of get_sphere_intersections(cam_loc, ray_directions, r)
GetSphereIntersections ==
    /\ spherePc = "input"
    /\ Len(cam_loc) > 0
    /\ LET b == ray_cam_dot(ray_directions, cam_loc)
           us == under_sqrt(ray_directions, cam_loc, r)
       IN IF SanityCheckFails(us)
          THEN \* print("BOUNDING SPHERE PROBLEM!"); exit()
               /\ stdout' = Append(stdout, "BOUNDING SPHERE PROBLEM!")
               /\ exitStatus' = 0
               /\ spherePc' = "exited"
               /\ UNCHANGED sphere_intersections
          ELSE /\ sphere_intersections' = Intersections(b, us)
               /\ spherePc' = "returned"
               /\ UNCHANGED procVars
    /\ UNCHANGED <<cam_loc, ray_directions, r, invVars, wsVars, blVars, camVars>>

ProcInit ==
    /\ stdout = <<>>
    /\ exitStatus = "running"

SphereIdle ==
    /\ cam_loc = <<>>
    /\ ray_directions = <<>>
    /\ r = 1
    /\ spherePc = "input"
    /\ sphere_intersections = <<>>

InvIdle ==
    /\ mat = <<>>
    /\ invPc = "input"
    /\ det = <<>>
    /\ adj = <<>>
    /\ inv_matrices = <<>>

NoOutput == [object_mask |-> <<>>, rgb |-> <<>>]

WsLocalsInit ==
    /\ wsPc = "start"
    /\ wsError = "none"
    /\ bbox_min = <<0, 0>>
    /\ bbox_max = <<0, 0>>
    /\ rand_calls = 0
    /\ samples_bbox = <<>>
    /\ samples_uniform = <<>>
    /\ index_outside = <<>>
    /\ output = NoOutput

WsIdle ==
    /\ img_size = <<2, 2>>
    /\ object_mask = <<<<FALSE, FALSE>>, <<FALSE, FALSE>>>>
    /\ num_sample = 0
    /\ bbox_ratio = <<0, 1>>
    /\ WsLocalsInit

BlIdle ==
    /\ bl_dist_map = <<<<0>>>>
    /\ xs_ys = <<>>
    /\ blPc = "input"
    /\ bl_out = <<>>

NotCalled == [called |-> FALSE, ray_dirs |-> <<>>, cam_loc |-> <<>>]

CamIdle ==
    /\ uv = <<>>
    /\ intrinsics = <<>>
    /\ pose = <<>>
    /\ pose_matrix = <<>>
    /\ quat_call = NotCalled
    /\ matrix_call = NotCalled

SphereInit ==
    /\ cam_loc = <<>>
    /\ ray_directions = <<>>
    /\ r \in Radii
    /\ spherePc = "input"
    /\ sphere_intersections = <<>>
    /\ ProcInit
    /\ InvIdle
    /\ WsIdle
    /\ BlIdle
    /\ CamIdle

SphereNext ==
    \/ Len(cam_loc) < MaxRays /\ \E o \in SphereOrigins, d \in SphereDirs : AddRay(o, d)
    \/ GetSphereIntersections

SpecSphere == SphereInit /\ [][SphereNext]_vars

(***************************************************************************)
(* Claims about get_sphere_intersections.                                  *)
(***************************************************************************)
SphereB == ray_cam_dot(ray_directions, cam_loc)
SphereDisc == under_sqrt(ray_directions, cam_loc, r)
SphereCalled == spherePc # "input"
InsideSphere(i) == Dot3(cam_loc[i], cam_loc[i]) < r * r
\* max(0, rat + surd * sqrt(D)) written out
MaxZero(rat, surd, D) ==
    IF SurdSign(rat, surd, D) > 0 THEN [rat |-> rat, surd |-> surd] ELSE SurdZero
\* x <= y and x = y as numbers, for x, y of the form rat + surd * sqrt(D)
SurdLe(x, y, D) == SurdSign(y.rat - x.rat, y.surd - x.surd, D) >= 0
SurdEq(x, y, D) == SurdSign(y.rat - x.rat, y.surd - x.surd, D) = 0

\* C1: when some ray of the batch has disc <= 0 the call returns no
\* distances for any ray and the failure reaches the caller as an error it
\* can tell from normal output: control comes back to the caller with a
\* raised error, the process is not ended and nothing is written to the
\* normal output stream.
C1_FailureSurfacedAsError ==
    (SphereCalled /\ \E i \in DOMAIN SphereDisc : SphereDisc[i] <= 0)
        => /\ sphere_intersections = <<>>
           /\ spherePc = "raised"
           /\ exitStatus = "running"
           /\ stdout = <<>>

\* C2: when every ray has disc > 0 the call returns, for each ray,
\* t_near = max(0, -b - sqrt(disc)) and t_far = max(0, -b + sqrt(disc));
\* so 0 <= t_near <= t_far, and a ray whose origin is strictly inside the
\* sphere gets t_near = 0 and t_far > 0.
C2_NearFarClamped ==
    (SphereCalled /\ \A i \in DOMAIN SphereDisc : SphereDisc[i] > 0)
        => /\ spherePc = "returned"
           /\ Len(sphere_intersections) = Len(cam_loc)
           /\ \A i \in DOMAIN sphere_intersections :
                LET near == sphere_intersections[i][1]
                    far == sphere_intersections[i][2]
                    D == SphereDisc[i]
                IN /\ SurdEq(near, MaxZero(-SphereB[i], -1, D), D)
                   /\ SurdEq(far, MaxZero(-SphereB[i], 1, D), D)
                   /\ SurdLe(SurdZero, near, D)
                   /\ SurdLe(near, far, D)
                   /\ InsideSphere(i)
                        => /\ SurdEq(near, SurdZero, D)
                           /\ SurdSign(far.rat, far.surd, D) > 0

\* a returned batch holding a ray from strictly inside the sphere and a ray
\* from outside it whose near distance is positive and irrational
C2_Witness ==
    /\ spherePc = "returned"
    /\ \E i, j \in DOMAIN sphere_intersections :
          /\ InsideSphere(i)
          /\ ~InsideSphere(j)
          /\ sphere_intersections[j][1].surd = -1
          /\ sphere_intersections[j][1].rat > 0
          /\ SphereDisc[j] = 2


(***************************************************************************)
(* inverse_3x3_batch (utils.py 438-468).  A matrix is a sequence of three  *)
(* rows; mat[:, i, j] of the code is m[i+1][j+1].                          *)
(***************************************************************************)
Entries == {-1, 0, MaxEntry}
Matrices == {<<<<a, b, c>>, <<d, e, f>>, <<g, h, k>>>> :
                a \in Entries, b \in Entries, c \in Entries,
                d \in Entries, e \in Entries, f \in Entries,
                g \in Entries, h \in Entries, k \in Entries}
\* the matrices of the longer batches: the circulants of a first row
BatchMatrices == {<<<<a, b, c>>, <<c, a, b>>, <<b, c, a>>>> :
                a \in Entries, b \in Entries, c \in Entries}

\* det, lines 442-444
Det3(m) ==
    m[1][1] * (m[2][2] * m[3][3] - m[2][3] * m[3][2])
        - m[1][2] * (m[2][1] * m[3][3] - m[2][3] * m[3][1])
        + m[1][3] * (m[2][1] * m[3][2] - m[2][2] * m[3][1])

\* (mutant: adj[:, 1, 2] with its two products exchanged)
Adj3SignSlip(m) ==
    << << m[2][2] * m[3][3] - m[2][3] * m[3][2],
          m[1][3] * m[3][2] - m[1][2] * m[3][3],
          m[1][2] * m[2][3] - m[1][3] * m[2][2] >>,
       << m[2][3] * m[3][1] - m[2][1] * m[3][3],
          m[1][1] * m[3][3] - m[1][3] * m[3][1],
          m[1][1] * m[2][3] - m[2][1] * m[1][3] >>,
       << m[2][1] * m[3][2] - m[2][2] * m[3][1],
          m[3][1] * m[1][2] - m[1][1] * m[3][2],
          m[1][1] * m[2][2] - m[2][1] * m[1][2] >> >>
\* adj, lines 450-462
Adj3(m) ==
    << << m[2][2] * m[3][3] - m[2][3] * m[3][2],
          m[1][3] * m[3][2] - m[1][2] * m[3][3],
          m[1][2] * m[2][3] - m[1][3] * m[2][2] >>,
       << m[2][3] * m[3][1] - m[2][1] * m[3][3],
          m[1][1] * m[3][3] - m[1][3] * m[3][1],
          m[2][1] * m[1][3] - m[1][1] * m[2][3] >>,
       << m[2][1] * m[3][2] - m[2][2] * m[3][1],
          m[3][1] * m[1][2] - m[1][1] * m[3][2],
          m[1][1] * m[2][2] - m[2][1] * m[1][2] >> >>

\* singular_mask = det == 0
singular_mask(dets) == [n \in DOMAIN dets |-> dets[n] = 0]

\* adj / det.unsqueeze(-1).unsqueeze(-1)
AdjOverDet(adjs, dets) ==
    [n \in DOMAIN adjs |->
        [i \in 1..3 |-> [j \in 1..3 |-> FloatDiv(adjs[n][i][j], dets[n])]]]

AllNaN == [i \in 1..3 |-> [j \in 1..3 |-> NaN]]

\* (mutant: the sentinel is written to the whole batch once any element is singular)
MaskedFillAll(inv, mask) ==
    [n \in DOMAIN inv |-> IF \E k \in DOMAIN mask : mask[k] THEN AllNaN ELSE inv[n]]
\* inv_matrices[singular_mask] = float('nan')
MaskedFill(inv, mask) ==
    [n \in DOMAIN inv |-> IF mask[n] THEN AllNaN ELSE inv[n]]

\* the environment hands the call one more matrix
AddMatrix(m) ==
    /\ invPc = "input"
    /\ mat' = Append(mat, m)
    /\ UNCHANGED <<invPc, det, adj, inv_matrices, sphereVars, procVars, wsVars, blVars, camVars>>

\* one call of inverse_3x3_batch(mat)
Inverse3x3Batch ==
    /\ invPc = "input"
    /\ Len(mat) > 0
    /\ LET dets == [n \in DOMAIN mat |-> Det3(mat[n])]
           adjs == [n \in DOMAIN mat |-> Adj3(mat[n])]
           mask == singular_mask(dets)
       IN /\ det' = dets
          /\ adj' = adjs
          /\ stdout' = IF \E n \in DOMAIN mask : mask[n]
                         THEN Append(stdout, "Warning: Singular matrices found.")
                         ELSE stdout
          /\ inv_matrices' = MaskedFill(AdjOverDet(adjs, dets), mask)
    /\ invPc' = "returned"
    /\ UNCHANGED <<mat, exitStatus, sphereVars, wsVars, blVars, camVars>>

InvInit == InvIdle /\ ProcInit /\ SphereIdle /\ WsIdle /\ BlIdle /\ CamIdle

\* batches of one matrix, over every matrix with entries in Entries
InverseNext ==
    \/ Len(mat) < 1 /\ \E m \in Matrices : AddMatrix(m)
    \/ Inverse3x3Batch

SpecInverse == InvInit /\ [][InverseNext]_vars

\* batches of up to MaxBatch circulant matrices
InverseBatchNext ==
    \/ Len(mat) < MaxBatch /\ \E m \in BatchMatrices : AddMatrix(m)
    \/ Inverse3x3Batch

SpecInverseBatch == InvInit /\ [][InverseBatchNext]_vars

(***************************************************************************)
(* Claims about inverse_3x3_batch.                                         *)
(***************************************************************************)
\* the subsequence of sq at the positions where keep holds
RECURSIVE Pick(_, _, _)
Pick(sq, keep, n) ==
    IF n > Len(sq) THEN <<>>
    ELSE (IF keep[n] THEN <<sq[n]>> ELSE <<>>) \o Pick(sq, keep, n + 1)

\* what the call returns for a batch, as the action computes it
InverseOf(batch) ==
    LET dets == [n \in DOMAIN batch |-> Det3(batch[n])]
        adjs == [n \in DOMAIN batch |-> Adj3(batch[n])]
    IN MaskedFill(AdjOverDet(adjs, dets), singular_mask(dets))

\* the determinant as the sum over the six permutations
DetLeibniz(m) ==
    m[1][1] * m[2][2] * m[3][3] + m[1][2] * m[2][3] * m[3][1]
        + m[1][3] * m[2][1] * m[3][2] - m[1][3] * m[2][2] * m[3][1]
        - m[1][2] * m[2][1] * m[3][3] - m[1][1] * m[2][3] * m[3][2]

\* integer matrix product and scalar multiple of the identity
MatMul(x, y) ==
    [i \in 1..3 |-> [j \in 1..3 |->
        x[i][1] * y[1][j] + x[i][2] * y[2][j] + x[i][3] * y[3][j]]]
ScalarId(c) == [i \in 1..3 |-> [j \in 1..3 |-> IF i = j THEN c ELSE 0]]
\* product of an integer matrix with a matrix of fractions
MatMulRat(x, y) ==
    [i \in 1..3 |-> [j \in 1..3 |->
        RatAdd(RatAdd(RatMul(Whole(x[i][1]), y[1][j]),
                      RatMul(Whole(x[i][2]), y[2][j])),
               RatMul(Whole(x[i][3]), y[3][j]))]]
IdentityRat == [i \in 1..3 |-> [j \in 1..3 |-> Whole(IF i = j THEN 1 ELSE 0)]]

\* C3: the call returns a batch of the size of its argument; every element
\* with determinant zero has all nine entries NaN and a warning is printed
\* (only then); every other element is adjugate/determinant, the same as in
\* the call on the batch without the singular elements.
C3_SingularElementsOnly ==
    invPc = "returned" =>
        LET regular == [n \in DOMAIN mat |-> DetLeibniz(mat[n]) # 0]
        IN /\ Len(inv_matrices) = Len(mat)
           /\ \A n \in DOMAIN mat :
                IF regular[n]
                THEN \A i, j \in 1..3 :
                        inv_matrices[n][i][j] = Frac(adj[n][i][j], det[n])
                ELSE \A i, j \in 1..3 : inv_matrices[n][i][j].kind = "nan"
           /\ (stdout # <<>>) <=> (\E n \in DOMAIN mat : ~regular[n])
           /\ Pick(inv_matrices, regular, 1) = InverseOf(Pick(mat, regular, 1))

\* a returned batch with a singular element that is not the zero matrix
\* next to an invertible one
C3_Witness ==
    /\ invPc = "returned"
    /\ \E n, k \in DOMAIN mat :
          /\ det[n] = 0
          /\ \E i, j \in 1..3 : adj[n][i][j] # 0
          /\ det[k] # 0
          /\ inv_matrices[k][1][1].den > 1

\* C4: the determinant of the call is the determinant of M, the adjugate of
\* the call satisfies M * adj = adj * M = det(M) * I, and when det(M) # 0
\* both products of M with the returned inverse are the identity.
C4_InverseCorrect ==
    invPc = "returned" =>
        \A n \in DOMAIN mat :
            /\ det[n] = DetLeibniz(mat[n])
            /\ MatMul(mat[n], adj[n]) = ScalarId(det[n])
            /\ MatMul(adj[n], mat[n]) = ScalarId(det[n])
            /\ det[n] # 0 =>
                  /\ MatMulRat(mat[n], inv_matrices[n]) = IdentityRat
                  /\ \A i, j \in 1..3 :
                        inv_matrices[n][i][j] = Frac(adj[n][i][j], det[n])

\* a returned inverse of a matrix with nine nonzero entries and |det| > 1
C4_Witness ==
    /\ invPc = "returned"
    /\ \E n \in DOMAIN mat :
          /\ Abs(det[n]) > 1
          /\ \A i, j \in 1..3 : mat[n][i][j] # 0


(***************************************************************************)
(* bilinear_interpolation (utils.py 206-217).  Coordinates are integers in *)
(* units of 1/RandDen, a field is a sequence of rows, and dist_map[i, j]   *)
(* of the code is dist_map[i+1][j+1].                                      *)
(***************************************************************************)
\* np.floor(xs).astype(np.int32)
Floor(X) == X \div RandDen

\* numpy's bound check of an integer index on an axis of length size
IndexOk(i, size) == -size <= i /\ i < size
\* numpy's indexing: a negative index counts from the end
GetItem(dist_map, i, j) ==
    LET H == Len(dist_map)
        W == Len(dist_map[1])
    IN dist_map[(IF i < 0 THEN i + H ELSE i) + 1][(IF j < 0 THEN j + W ELSE j) + 1]

\* the four fancy-indexing reads of line 215 raise IndexError
GatherFails(X, Y, dist_map) ==
    LET H == Len(dist_map)
        W == Len(dist_map[1])
    IN \/ ~IndexOk(Floor(X), H) \/ ~IndexOk(Floor(X) + 1, H)
       \/ ~IndexOk(Floor(Y), W) \/ ~IndexOk(Floor(Y) + 1, W)

\* (mutant: Q is filled column by column)
QTransposed(X, Y, dist_map) ==
    LET x1 == Floor(X)
        y1 == Floor(Y)
    IN << <<GetItem(dist_map, x1, y1), GetItem(dist_map, x1 + 1, y1)>>,
          <<GetItem(dist_map, x1, y1 + 1), GetItem(dist_map, x1 + 1, y1 + 1)>> >>
\* Q, lines 214-216: [[F[x1,y1], F[x1,y2]], [F[x2,y1], F[x2,y2]]]
Q(X, Y, dist_map) ==
    LET x1 == Floor(X)
        y1 == Floor(Y)
    IN << <<GetItem(dist_map, x1, y1), GetItem(dist_map, x1, y1 + 1)>>,
          <<GetItem(dist_map, x1 + 1, y1), GetItem(dist_map, x1 + 1, y1 + 1)>> >>

\* dx @ Q @ dy for one coordinate; dx, dy carry a factor RandDen each
Interpolate1(X, Y, dist_map) ==
    LET dx == <<(Floor(X) + 1) * RandDen - X, X - Floor(X) * RandDen>>
        dy == <<(Floor(Y) + 1) * RandDen - Y, Y - Floor(Y) * RandDen>>
        q == Q(X, Y, dist_map)
        dxQ == <<dx[1] * q[1][1] + dx[2] * q[2][1], dx[1] * q[1][2] + dx[2] * q[2][2]>>
    IN Frac(dxQ[1] * dy[1] + dxQ[2] * dy[2], RandDen * RandDen)

\* bilinear_interpolation(xs, ys, dist_map) over the coordinate arrays
bilinear_interpolation(coords, dist_map) ==
    IF \E n \in DOMAIN coords : GatherFails(coords[n][1], coords[n][2], dist_map)
    THEN [raised |-> TRUE, value |-> <<>>]
    ELSE [raised |-> FALSE,
          value |-> [n \in DOMAIN coords |->
                        Interpolate1(coords[n][1], coords[n][2], dist_map)]]

(***************************************************************************)
(* get_index_outside_of_bbox (220-229) and weighted_sampling (232-272).    *)
(***************************************************************************)
\* (mutant: a sample on the boundary counts as outside)
OutsideBBoxInclusive(p, bmin, bmax) ==
    \/ p[1] <= bmin[1] * RandDen
    \/ p[1] >= bmax[1] * RandDen
    \/ p[2] <= bmin[2] * RandDen
    \/ p[2] >= bmax[2] * RandDen
\* the condition of lines 224-227 for one sample
OutsideBBox(p, bmin, bmax) ==
    \/ p[1] < bmin[1] * RandDen
    \/ p[1] > bmax[1] * RandDen
    \/ p[2] < bmin[2] * RandDen
    \/ p[2] > bmax[2] * RandDen

\* np.where(cond)[0]: the 0-based positions where cond holds, ascending
RECURSIVE WhereOutside(_, _, _, _)
WhereOutside(smp, bmin, bmax, n) ==
    IF n > Len(smp) THEN <<>>
    ELSE (IF OutsideBBox(smp[n], bmin, bmax) THEN <<n - 1>> ELSE <<>>)
            \o WhereOutside(smp, bmin, bmax, n + 1)

get_index_outside_of_bbox(smp, bmin, bmax) == WhereOutside(smp, bmin, bmax, 1)

\* np.asarray(np.where(mask)): the <<row, col>> of the True pixels
Where(mask) ==
    {<<x, y>> \in (0..(Len(mask) - 1)) \X (0..(Len(mask[1]) - 1)) : mask[x + 1][y + 1]}

\* (mutant: the reduction does not raise on an empty array)
ZeroSizeIgnored(where) == FALSE
\* where.min(axis=1) raises ValueError on a zero-size array
ZeroSizeReduction(where) == where = {}

\* where.min(axis=1)[k], where.max(axis=1)[k] (of a non-empty array)
AxisMin(where, k) ==
    LET vals == {p[k] : p \in where}
    IN IF vals = {} THEN 0 ELSE CHOOSE v \in vals : \A u \in vals : v <= u
AxisMax(where, k) ==
    LET vals == {p[k] : p \in where}
    IN IF vals = {} THEN 0 ELSE CHOOSE v \in vals : \A u \in vals : v >= u

\* (mutant: the count is rounded up)
NumSampleBBoxCeil(n, ratio) == (n * ratio[1] + ratio[2] - 1) \div ratio[2]
\* int(num_sample * bbox_ratio), line 243
NumSampleBBox(n, ratio) == (n * ratio[1]) \div ratio[2]

\* samples_bbox * (bbox_max - bbox_min) + bbox_min, line 245
ScaleToBBox(rnd, bmin, bmax) ==
    [n \in DOMAIN rnd |->
        <<rnd[n][1] * (bmax[1] - bmin[1]) + bmin[1] * RandDen,
          rnd[n][2] * (bmax[2] - bmin[2]) + bmin[2] * RandDen>>]
\* samples_uniform *= (img_size[0] - 1, img_size[1] - 1), line 249
ScaleToImage(rnd, size) ==
    [n \in DOMAIN rnd |-> <<rnd[n][1] * (size[1] - 1), rnd[n][2] * (size[2] - 1)>>]

\* the two fields of data: the mask as numbers, and an rgb image
MaskField(mask) ==
    [x \in DOMAIN mask |-> [y \in DOMAIN mask[x] |-> IF mask[x][y] THEN 1 ELSE 0]]
RgbChannel(size, c) ==
    [x \in 1..size[1] |-> [y \in 1..size[2] |-> (x - 1) * size[2] + (y - 1) + c]]

\* lines 238-241
CalcBBox ==
    /\ wsPc = "start"
    /\ LET where == Where(object_mask)
       IN IF ZeroSizeReduction(where)
          THEN /\ wsPc' = "error"
               /\ wsError' = "ValueError"
               /\ UNCHANGED <<bbox_min, bbox_max>>
          ELSE /\ wsPc' = "bbox"
               /\ bbox_min' = <<AxisMin(where, 1), AxisMin(where, 2)>>
               /\ bbox_max' = <<AxisMax(where, 1), AxisMax(where, 2)>>
               /\ UNCHANGED wsError
    /\ UNCHANGED <<wsArgs, rand_calls, samples_bbox, samples_uniform, index_outside,
                   output, sphereVars, procVars, invVars, blVars, camVars>>

\* lines 243-254; rndB, rndU are what the two np.random.rand calls return
DrawSamples(rndB, rndU) ==
    /\ wsPc = "bbox"
    /\ rand_calls' = rand_calls + 2
    /\ samples_bbox' = ScaleToBBox(rndB, bbox_min, bbox_max)
    /\ samples_uniform' = ScaleToImage(rndU, img_size)
    /\ index_outside' =
          LET idx == get_index_outside_of_bbox(ScaleToImage(rndU, img_size),
                                               bbox_min, bbox_max)
          IN [k \in DOMAIN idx |-> idx[k] + NumSampleBBox(num_sample, bbox_ratio)]
    /\ wsPc' = "sampled"
    /\ UNCHANGED <<wsArgs, wsError, bbox_min, bbox_max, output,
                   sphereVars, procVars, invVars, blVars, camVars>>

\* lines 256-272: the loop over data.items() and the return
Resample ==
    /\ wsPc = "sampled"
    /\ LET indices == samples_bbox \o samples_uniform
           m == bilinear_interpolation(indices, MaskField(object_mask))
           ch == [c \in Channels |->
                    bilinear_interpolation(indices, RgbChannel(img_size, c))]
       IN IF m.raised \/ \E c \in Channels : ch[c].raised
          THEN /\ wsPc' = "error"
               /\ wsError' = "IndexError"
               /\ UNCHANGED output
          ELSE /\ wsPc' = "done"
               /\ output' = [object_mask |-> m.value,
                             rgb |-> [n \in DOMAIN indices |->
                                        [c \in Channels |-> ch[c].value[n]]]]
               /\ UNCHANGED wsError
    /\ UNCHANGED <<wsArgs, bbox_min, bbox_max, rand_calls, samples_bbox,
                   samples_uniform, index_outside, sphereVars, procVars, invVars,
                   blVars, camVars>>

Sizes == (2..MaxDim) \X (2..MaxDim)
\* the masks of an image size that have at most two True pixels
Masks(size) ==
    LET cells == (1..size[1]) \X (1..size[2])
    IN {[x \in 1..size[1] |-> [y \in 1..size[2] |-> FALSE]]}
         \cup {[x \in 1..size[1] |-> [y \in 1..size[2] |-> <<x, y>> = p \/ <<x, y>> = q]] :
                  p \in cells, q \in cells}

WsInit ==
    /\ img_size \in Sizes
    /\ object_mask \in Masks(img_size)
    /\ num_sample \in 0..MaxSamples
    /\ bbox_ratio \in Ratios
    /\ WsLocalsInit
    /\ ProcInit
    /\ SphereIdle
    /\ InvIdle
    /\ BlIdle
    /\ CamIdle

WsNext ==
    \/ CalcBBox
    \/ /\ wsPc = "bbox"
       /\ \E rndB \in [1..NumSampleBBox(num_sample, bbox_ratio) -> Draws \X Draws],
             rndU \in [1..(num_sample - NumSampleBBox(num_sample, bbox_ratio))
                          -> Draws \X Draws] :
             DrawSamples(rndB, rndU)
    \/ Resample

SpecSample == WsInit /\ [][WsNext]_vars


(***************************************************************************)
(* Claims about weighted_sampling.                                         *)
(***************************************************************************)
MaskEmpty == Where(object_mask) = {}
\* the two np.random.rand calls have been made
Drawn == wsPc = "sampled" \/ wsPc = "done" \/ (wsPc = "error" /\ wsError = "IndexError")
AllSamples == samples_bbox \o samples_uniform

\* round(a / b) to the nearest integer, a tie going to the even neighbour
RoundHalfEven(a, b) ==
    LET f == a \div b
        twice == 2 * (a - f * b)
    IN IF twice < b THEN f
       ELSE IF twice > b THEN f + 1
       ELSE IF f % 2 = 0 THEN f ELSE f + 1

FieldsHoldNumSample ==
    /\ Len(output.object_mask) = num_sample
    /\ Len(output.rgb) = num_sample
    /\ \A n \in DOMAIN output.rgb : DOMAIN output.rgb[n] = Channels

\* C5 as stated: round(num_samples * bbox_ratio) coordinates are drawn
\* inside the bounding box, the other num_samples - that over the image, and
\* every field of the output holds num_samples values.
C5_RoundedCount ==
    Drawn =>
        /\ Len(samples_bbox) = RoundHalfEven(num_sample * bbox_ratio[1], bbox_ratio[2])
        /\ Len(samples_uniform) = num_sample - Len(samples_bbox)
        /\ wsPc = "done" => FieldsHoldNumSample

\* C5 amended: the number of coordinates drawn inside the bounding box is
\* num_samples * bbox_ratio truncated to an integer (the k with
\* k <= num_samples * bbox_ratio < k + 1), the number drawn over the image is
\* num_samples minus that, and every field of an output the call returns
\* holds num_samples values.
C5_TruncatedCount ==
    Drawn =>
        /\ Len(samples_bbox) * bbox_ratio[2] <= num_sample * bbox_ratio[1]
        /\ num_sample * bbox_ratio[1] < (Len(samples_bbox) + 1) * bbox_ratio[2]
        /\ Len(samples_uniform) = num_sample - Len(samples_bbox)
        /\ Len(AllSamples) = num_sample
        /\ wsPc = "done" => FieldsHoldNumSample

\* a returned output for the default ratio where truncation and rounding differ
C5_Witness ==
    /\ wsPc = "done"
    /\ bbox_ratio = <<9, 10>>
    /\ num_sample = 2
    /\ Len(samples_bbox) = 1
    /\ Len(output.rgb) = 2

\* C6: the index set is exactly the n_bbox + i of the uniform samples i that
\* lie strictly outside the bounding box on some axis, in strictly increasing
\* order, every index in [n_bbox, num_samples); no bbox-biased sample and no
\* uniform sample on the boundary of the box is listed.
C6_IndexOutsideExact ==
    Drawn =>
        LET nb == Len(samples_bbox)
            listed == {index_outside[k] : k \in DOMAIN index_outside}
            row(i) == samples_uniform[i + 1][1]
            col(i) == samples_uniform[i + 1][2]
            outside(i) ==
                \/ row(i) < bbox_min[1] * RandDen \/ row(i) > bbox_max[1] * RandDen
                \/ col(i) < bbox_min[2] * RandDen \/ col(i) > bbox_max[2] * RandDen
            onBoundary(i) ==
                /\ ~outside(i)
                /\ \/ row(i) = bbox_min[1] * RandDen \/ row(i) = bbox_max[1] * RandDen
                   \/ col(i) = bbox_min[2] * RandDen \/ col(i) = bbox_max[2] * RandDen
        IN /\ listed = {nb + i : i \in {j \in 0..(Len(samples_uniform) - 1) : outside(j)}}
           /\ \A k \in DOMAIN index_outside :
                 /\ nb <= index_outside[k]
                 /\ index_outside[k] < num_sample
                 /\ k > 1 => index_outside[k - 1] < index_outside[k]
           /\ \A i \in 0..(nb - 1) : i \notin listed
           /\ \A i \in 0..(Len(samples_uniform) - 1) : onBoundary(i) => (nb + i) \notin listed

\* one bbox-biased sample, then a uniform sample outside the box, listed at
\* its offset position
C6_Witness ==
    /\ wsPc = "sampled"
    /\ Len(samples_bbox) = 1
    /\ index_outside = <<1>>

\* C7: with no True pixel in the mask the call ends in an error raised
\* before any coordinate is drawn and before any field is interpolated;
\* nothing is returned.
C7_EmptyMaskRaisesFirst ==
    (MaskEmpty /\ wsPc # "start") =>
        /\ wsPc = "error"
        /\ wsError = "ValueError"
        /\ rand_calls = 0
        /\ samples_bbox = <<>> /\ samples_uniform = <<>>
        /\ index_outside = <<>>
        /\ output = NoOutput

\* the call on an empty mask, asked for samples, after it ended
C7_Witness ==
    /\ MaskEmpty
    /\ num_sample > 0
    /\ wsPc = "error"

\* C10: for a non-empty mask of the shape of the image, the four neighbour
\* indices bilinear_interpolation reads are in range for every drawn
\* coordinate: 0 <= x1, x1 + 1 <= H - 1, 0 <= y1, y1 + 1 <= W - 1.
C10_NeighboursInRange ==
    (Drawn /\ ~MaskEmpty) =>
        \A n \in DOMAIN AllSamples :
            /\ 0 <= Floor(AllSamples[n][1])
            /\ Floor(AllSamples[n][1]) + 1 <= img_size[1] - 1
            /\ 0 <= Floor(AllSamples[n][2])
            /\ Floor(AllSamples[n][2]) + 1 <= img_size[2] - 1


(***************************************************************************)
(* bilinear_interpolation called on its own.                               *)
(***************************************************************************)
\* the fields of a size with at most two nonzero values, each 1 or 2
Fields(size) ==
    LET cells == (1..size[1]) \X (1..size[2])
    IN {[x \in 1..size[1] |-> [y \in 1..size[2] |->
            IF <<x, y>> = p THEN v ELSE IF <<x, y>> = q THEN w ELSE 0]] :
         p \in cells, q \in cells, v \in 0..2, w \in 0..2}
\* the coordinates from the first to the last grid line, in steps of 1/RandDen
Coordinates(size) ==
    (0..((size[1] - 1) * RandDen)) \X (0..((size[2] - 1) * RandDen))

\* one call of bilinear_interpolation(xs, ys, bl_dist_map)
BilinearInterpolation ==
    /\ blPc = "input"
    /\ LET res == bilinear_interpolation(xs_ys, bl_dist_map)
       IN /\ blPc' = IF res.raised THEN "raised" ELSE "returned"
          /\ bl_out' = res.value
    /\ UNCHANGED <<bl_dist_map, xs_ys, sphereVars, procVars, invVars, wsVars, camVars>>

\* the environment hands the call one more coordinate (arrays of length one)
AddCoordinate(c) ==
    /\ blPc = "input"
    /\ Len(xs_ys) < 1
    /\ xs_ys' = Append(xs_ys, c)
    /\ UNCHANGED <<bl_dist_map, blPc, bl_out, sphereVars, procVars, invVars, wsVars,
                   camVars>>

BlInit ==
    /\ \E size \in Sizes : bl_dist_map \in Fields(size)
    /\ xs_ys = <<>>
    /\ blPc = "input"
    /\ bl_out = <<>>
    /\ ProcInit
    /\ SphereIdle
    /\ InvIdle
    /\ WsIdle
    /\ CamIdle

BlNext ==
    \/ \E c \in Coordinates(<<Len(bl_dist_map), Len(bl_dist_map[1])>>) : AddCoordinate(c)
    \/ Len(xs_ys) > 0 /\ BilinearInterpolation

SpecBilinear == BlInit /\ [][BlNext]_vars

\* C8: with x1 = floor(x), y1 = floor(y), x2 = x1 + 1, y2 = y1 + 1 inside
\* the field the result is (x2-x)(y2-y) F[x1,y1] + (x2-x)(y-y1) F[x1,y2] +
\* (x-x1)(y2-y) F[x2,y1] + (x-x1)(y-y1) F[x2,y2], the weights sum to 1, and
\* at an integer grid coordinate the result is F[x,y].
C8_BilinearFormula ==
    \A n \in DOMAIN xs_ys :
        LET X == xs_ys[n][1]
            Y == xs_ys[n][2]
            x1 == X \div RandDen
            y1 == Y \div RandDen
            inside == /\ 0 <= x1 /\ x1 + 1 <= Len(bl_dist_map) - 1
                      /\ 0 <= y1 /\ y1 + 1 <= Len(bl_dist_map[1]) - 1
            \* the four weights, each carrying the factor RandDen * RandDen
            w11 == ((x1 + 1) * RandDen - X) * ((y1 + 1) * RandDen - Y)
            w12 == ((x1 + 1) * RandDen - X) * (Y - y1 * RandDen)
            w21 == (X - x1 * RandDen) * ((y1 + 1) * RandDen - Y)
            w22 == (X - x1 * RandDen) * (Y - y1 * RandDen)
        IN (blPc # "input" /\ inside) =>
              /\ blPc = "returned"
              /\ w11 + w12 + w21 + w22 = RandDen * RandDen
              /\ bl_out[n] = Frac(w11 * bl_dist_map[x1 + 1][y1 + 1]
                                    + w12 * bl_dist_map[x1 + 1][y1 + 2]
                                    + w21 * bl_dist_map[x1 + 2][y1 + 1]
                                    + w22 * bl_dist_map[x1 + 2][y1 + 2],
                                  RandDen * RandDen)
              /\ (X = x1 * RandDen /\ Y = y1 * RandDen)
                    => bl_out[n] = Whole(bl_dist_map[x1 + 1][y1 + 1])

\* a returned value at a coordinate off the grid on both axes whose two
\* off-diagonal neighbours differ
C8_Witness ==
    /\ blPc = "returned"
    /\ xs_ys[1][1] % RandDen # 0
    /\ xs_ys[1][2] % RandDen # 0
    /\ bl_out[1].den = RandDen * RandDen
    /\ bl_dist_map[1][2] # bl_dist_map[2][1]


(***************************************************************************)
(* quat_to_rot (143-160), lift (118-140), get_camera_params (79-106), for  *)
(* a batch of one image.  Tensor elements are fractions.  A normalised     *)
(* quaternion enters quat_to_rot only through products of two of its       *)
(* components, qa*qb/|q|^2, which are fractions; a direction normalised by *)
(* F.normalize is held as the primitive integer vector that points the     *)
(* same way (v/|v| = w/|w| exactly when these agree).                      *)
(***************************************************************************)
Zero == Whole(0)
One == Whole(1)
Two == Whole(2)

\* |q|^2, the square of the norm F.normalize(q, dim=1) divides by
NormSquared(q) ==
    RatAdd(RatAdd(RatMul(q[1], q[1]), RatMul(q[2], q[2])),
           RatAdd(RatMul(q[3], q[3]), RatMul(q[4], q[4])))

\* quat_to_rot: qr, qi, qj, qk are components 1, 2, 3, 4 of the normalised
\* quaternion; rr[a][b] is the product of two of them (a zero quaternion is
\* divided by eps and stays zero)
quat_to_rot(q) ==
    LET n == NormSquared(q)
        rr == [a \in 1..4 |-> [b \in 1..4 |->
                  IF n.num = 0 THEN Zero ELSE RatDiv(RatMul(q[a], q[b]), n)]]
    IN << << RatSub(One, RatMul(Two, RatAdd(rr[3][3], rr[4][4]))),
             RatMul(Two, RatSub(rr[3][2], rr[4][1])),
             RatMul(Two, RatAdd(rr[2][4], rr[1][3])) >>,
          << RatMul(Two, RatAdd(rr[3][2], rr[4][1])),
             RatSub(One, RatMul(Two, RatAdd(rr[2][2], rr[4][4]))),
             RatMul(Two, RatSub(rr[3][4], rr[2][1])) >>,
          << RatMul(Two, RatSub(rr[4][2], rr[3][1])),
             RatMul(Two, RatAdd(rr[3][4], rr[2][1])),
             RatSub(One, RatMul(Two, RatAdd(rr[2][2], rr[3][3]))) >> >>

\* lift(x, y, z, intrinsics): the homogeneous camera-space point
lift(x, y, z, K) ==
    LET fx == K[1][1]
        fy == K[2][2]
        cx == K[1][3]
        cy == K[2][3]
        sk == K[1][2]
        x_lift == RatMul(RatDiv(RatSub(RatAdd(RatSub(x, cx),
                                              RatDiv(RatMul(cy, sk), fy)),
                                       RatDiv(RatMul(sk, y), fy)),
                                fx),
                         z)
        y_lift == RatMul(RatDiv(RatSub(y, cy), fy), z)
    IN <<x_lift, y_lift, z, One>>

\* (mutant: R is written into p transposed)
PoseFromQuaternionTransposed(ps) ==
    LET R == quat_to_rot(SubSeq(ps, 1, 4))
    IN << <<R[1][1], R[2][1], R[3][1], ps[5]>>,
          <<R[1][2], R[2][2], R[3][2], ps[6]>>,
          <<R[1][3], R[2][3], R[3][3], ps[7]>>,
          <<Zero, Zero, Zero, One>> >>
\* lines 82-85: p = eye(4); p[:3, :3] = R; p[:3, 3] = cam_loc
PoseFromQuaternion(ps) ==
    LET R == quat_to_rot(SubSeq(ps, 1, 4))
    IN << <<R[1][1], R[1][2], R[1][3], ps[5]>>,
          <<R[2][1], R[2][2], R[2][3], ps[6]>>,
          <<R[3][1], R[3][2], R[3][3], ps[7]>>,
          <<Zero, Zero, Zero, One>> >>

RECURSIVE Gcd3(_, _, _)
Gcd3(a, b, c) == Gcd(Gcd(a, b), c)
\* F.normalize(v, dim=2) of a 3-vector of fractions: the primitive integer
\* vector of its direction (the zero vector stays zero)
Normalize3(v) ==
    LET m == v[1].den * v[2].den * v[3].den
        w == [k \in 1..3 |-> v[k].num * (m \div v[k].den)]
        g == Gcd3(w[1], w[2], w[3])
    IN IF g = 0 THEN <<0, 0, 0>> ELSE [k \in 1..3 |-> w[k] \div g]

\* row k of torch.bmm(p, pixel_points_cam) for one point
BmmRow(p, pt, k) ==
    RatAdd(RatAdd(RatMul(p[k][1], pt[1]), RatMul(p[k][2], pt[2])),
           RatAdd(RatMul(p[k][3], pt[3]), RatMul(p[k][4], pt[4])))

\* get_camera_params(uv, pose, intrinsics) for one image
get_camera_params(pix, ps, K) ==
    LET quaternion == Len(ps) = 7
        loc == IF quaternion THEN SubSeq(ps, 5, 7)
               ELSE <<ps[1][4], ps[2][4], ps[3][4]>>
        p == IF quaternion THEN PoseFromQuaternion(ps) ELSE ps
        dirs == [n \in DOMAIN pix |->
                    LET pt == lift(pix[n][1], pix[n][2], One, K)
                        world == [k \in 1..3 |-> BmmRow(p, pt, k)]
                    IN Normalize3([k \in 1..3 |-> RatSub(world[k], loc[k])])]
    IN [called |-> TRUE, ray_dirs |-> dirs, cam_loc |-> loc]

\* the call with the 7-vector pose
CallQuaternionPose ==
    /\ ~quat_call.called
    /\ quat_call' = get_camera_params(uv, pose, intrinsics)
    /\ UNCHANGED <<camArgs, matrix_call, sphereVars, procVars, invVars, wsVars, blVars>>

\* the call with the 4x4 pose
CallMatrixPose ==
    /\ ~matrix_call.called
    /\ matrix_call' = get_camera_params(uv, pose_matrix, intrinsics)
    /\ UNCHANGED <<camArgs, quat_call, sphereVars, procVars, invVars, wsVars, blVars>>

\* the 4x4 pose of the same camera: rotation block quat_to_rot(q),
\* translation column t, bottom row [0, 0, 0, 1]
MatrixPoseOf(ps) ==
    LET R == quat_to_rot(SubSeq(ps, 1, 4))
    IN << <<R[1][1], R[1][2], R[1][3], ps[5]>>,
          <<R[2][1], R[2][2], R[2][3], ps[6]>>,
          <<R[3][1], R[3][2], R[3][3], ps[7]>>,
          <<Zero, Zero, Zero, One>> >>

QuatEntries == {-1, 0, 1}
Translations == {<<0, 0, 0>>, <<1, -2, 3>>}
Poses == {<<Whole(qw), Whole(qx), Whole(qy), Whole(qz),
            Whole(t[1]), Whole(t[2]), Whole(t[3])>> :
            qw \in QuatEntries, qx \in QuatEntries, qy \in QuatEntries,
            qz \in QuatEntries, t \in Translations}
\* [[fx, sk, cx, 0], [0, fy, cy, 0], [0, 0, 1, 0], [0, 0, 0, 1]]
IntrinsicsSet ==
    {<< <<Whole(f[1]), Whole(sk), Whole(c[1]), Zero>>,
        <<Zero, Whole(f[2]), Whole(c[2]), Zero>>,
        <<Zero, Zero, One, Zero>>,
        <<Zero, Zero, Zero, One>> >> :
        f \in {<<1, 1>>, <<2, 3>>}, sk \in {0, 1}, c \in {<<1, 2>>}}
Pixels == {<<Whole(x), Whole(y)>> : x \in 0..MaxPixel, y \in 0..MaxPixel}

CamInit ==
    /\ \E px \in Pixels : uv = <<px>>
    /\ intrinsics \in IntrinsicsSet
    /\ pose \in Poses
    /\ pose_matrix = MatrixPoseOf(pose)
    /\ quat_call = NotCalled
    /\ matrix_call = NotCalled
    /\ ProcInit
    /\ SphereIdle
    /\ InvIdle
    /\ WsIdle
    /\ BlIdle

CamNext ==
    \/ CallQuaternionPose
    \/ CallMatrixPose

SpecCamera == CamInit /\ [][CamNext]_vars

\* C9: for the same pixels and intrinsics the 7-vector pose and the 4x4
\* pose built from quat_to_rot(q), t and the row [0, 0, 0, 1] give the same
\* ray directions and the same origins, and in both calls the origin is the
\* translation of the pose.
C9_PoseBranchesAgree ==
    /\ quat_call.called => quat_call.cam_loc = SubSeq(pose, 5, 7)
    /\ matrix_call.called => matrix_call.cam_loc = SubSeq(pose, 5, 7)
    /\ (quat_call.called /\ matrix_call.called) =>
          /\ quat_call.ray_dirs = matrix_call.ray_dirs
          /\ quat_call.cam_loc = matrix_call.cam_loc

\* both calls made for a rotation that is not the identity (a quaternion of
\* norm sqrt(3)), a translated camera and a skewed camera matrix
C9_Witness ==
    /\ quat_call.called
    /\ matrix_call.called
    /\ pose[1] = One /\ pose[2] = One /\ pose[3] = Zero /\ pose[4] = Whole(-1)
    /\ pose[5] = One
    /\ intrinsics[1][2] = One
    /\ quat_call.ray_dirs[1] # <<0, 0, 1>>


=============================================================================
